---- MODULE Spec2Model ----
(***************************************************************************)
(* Model of number_game.py (class NumberGame): the raw-terminal keystroke  *)
(* reader get_key, the guess editor get_guess, one round play_round and    *)
(* the session loop run, with the statistics they maintain.                *)
(*                                                                         *)
(* A keystroke is the one-character string sys.stdin.read(1) returns.      *)
(* The two deletion keys, which TLA+ strings cannot spell, are written     *)
(* "DEL" ('\x7f') and "BS" ('\b').                                         *)
(***************************************************************************)
EXTENDS Integers, Sequences, FiniteSets, TLC

(* ------------------------------ bounds -------------------------------- *)

\* rounds a session may start in the model (run itself loops for ever)
MaxRounds == 2

\* configurations NumberGame(min_num, max_num, max_attempts) is built with;
\* 1, 10, 3 are the defaults of __init__
Configs == {<<1, 10>>, <<3, 7>>}
AttemptBudgets == {1, 3}

\* terminal modes the program may be started in
TermModes == {"cooked"}

(* ---------------------------- keystrokes ------------------------------ *)

KEY_CR == "\r"
KEY_DEL == "DEL"
KEY_BS == "BS"

\* decimal digit keys the player presses
DecimalKeys == {"0", "1", "3", "7", "9"}

\* a character for which str.isdigit() is true and int() raises ValueError
SuperscriptKeys == {"²"}

\* keys pressed while a guess is entered
GuessKeys == DecimalKeys \cup SuperscriptKeys
               \cup {"x", "X", KEY_CR, KEY_DEL, KEY_BS, "a", "q"}

\* keys pressed at the play-again prompt
MenuKeys == {" ", "q", "Q", "x", "a", KEY_CR}

\* str.lower() on the keys of the model
lower(c) == IF c = "X" THEN "x" ELSE IF c = "Q" THEN "q" ELSE c

\* str.isdigit() of one character
isdigit(c) == c \in {"0", "1", "2", "3", "4", "5", "6", "7", "8", "9"}
                \/ c \in SuperscriptKeys

\* str.isdigit() of a string: non-empty and every character a digit
str_isdigit(s) == Len(s) > 0 /\ \A i \in 1..Len(s) : isdigit(s[i])

\* value of a decimal digit character
digit_value(c) ==
  CASE c = "0" -> 0 [] c = "1" -> 1 [] c = "2" -> 2 [] c = "3" -> 3
    [] c = "4" -> 4 [] c = "5" -> 5 [] c = "6" -> 6 [] c = "7" -> 7
    [] c = "8" -> 8 [] c = "9" -> 9

\* int(s) raises ValueError on a character that is no decimal digit
int_raises(s) == \E i \in 1..Len(s) : s[i] \in SuperscriptKeys

\* int(s) for a string of decimal digits (leading zeros allowed)
RECURSIVE int(_)
int(s) == IF Len(s) = 0 THEN 0
          ELSE 10 * int(SubSeq(s, 1, Len(s) - 1)) + digit_value(s[Len(s)])

\* len(str(n))
RECURSIVE len_str(_)
len_str(n) == IF n < 0 THEN 1 + len_str(0 - n)
              ELSE IF n < 10 THEN 1
              ELSE 1 + len_str(n \div 10)

(* ------------------------------- state -------------------------------- *)

VARIABLES
  min_num, max_num, max_attempts, \* self.min_num, self.max_num, self.max_attempts
  games, wins,                    \* self.stats['games'], self.stats['wins']
  pc,                             \* where the program is
  termMode,                       \* mode of the terminal
  old_settings,                   \* get_key: mode saved by tcgetattr
  reading,                        \* get_key: between setraw and the finally
  ch,                             \* key returned by the last get_key
  nonnumeric,                     \* get_guess: since the input was last shown
                                  \* empty, only letters and then submits
                                  \* were typed
  exc,                            \* exception that left run
  guess,                          \* get_guess: the input string
  msg,                            \* get_guess: message printed for the last key
  ret,                            \* play_round: value returned by get_guess
  target, attempts,               \* play_round: target, attempts
  hint,                           \* play_round: last hint printed in the round
  hints, winTones, loseTones,     \* tones played in the round
  outcome,                        \* how the last ended round ended
  rounds,                         \* rounds started
  statsShown,                     \* times show_stats ran
  win_rate                        \* show_stats: win rate printed, in tenths
                                  \* of a percent (-1: none printed)

vars == <<min_num, max_num, max_attempts, games, wins, pc, termMode,
          old_settings, reading, ch, nonnumeric, exc, guess, msg, ret,
          target, attempts, hint, hints, winTones, loseTones, outcome, rounds,
          statsShown, win_rate>>

config == <<min_num, max_num, max_attempts>>
stats == <<games, wins>>
terminal == <<termMode, old_settings, reading>>
roundVars == <<target, attempts, hint, hints, winTones, loseTones>>
tones == <<hint, hints, winTones, loseTones>>
shown == <<statsShown, win_rate>>

NoRet == [kind |-> "none", num |-> 0]
QuitRet == [kind |-> "quit", num |-> 0]
NumRet(n) == [kind |-> "num", num |-> n]

\* NumberGame(...) constructed, run() about to call play_round
Init ==
  /\ \E c \in Configs : min_num = c[1] /\ max_num = c[2]
  /\ min_num < max_num
  /\ max_attempts \in AttemptBudgets
  /\ games = 0
  /\ wins = 0
  /\ pc = "run"
  /\ termMode \in TermModes
  /\ old_settings = "unset"
  /\ reading = FALSE
  /\ ch = ""
  /\ nonnumeric = FALSE
  /\ exc = "none"
  /\ guess = <<>>
  /\ msg = "none"
  /\ ret = NoRet
  /\ target = 0
  /\ attempts = 0
  /\ hint = "none"
  /\ hints = 0
  /\ winTones = 0
  /\ loseTones = 0
  /\ outcome = "None"
  /\ rounds = 0
  /\ statsShown = 0
  /\ win_rate = -1

(* ------------------------------ get_key ------------------------------- *)

\* get_key without the finally clause: the mode is restored only when the
\* read returns
get_key_restore_on_success(readOk, setOk, saved, current) ==
  IF readOk /\ setOk THEN saved ELSE current

\* the finally clause: tcsetattr(fd, TCSADRAIN, old_settings), run whether
\* the read returned (readOk) or raised.  The call sets the saved mode, or
\* it is refused (setOk false: the terminal hung up, or the process is in a
\* background process group), leaves the mode as it is and raises
\* termios.error, which replaces the exception of the read.
get_key_finally(readOk, setOk, saved, current) ==
  IF setOk THEN saved ELSE current

\* the exception that leaves get_key when its body raised e: e itself when
\* the finally clause succeeded, the termios.error of line 43 otherwise
get_key_raises(e, setOk) == IF setOk THEN e ELSE "termios.error"

\* an exception leaves run and ends the process: the frames of get_key,
\* get_guess and play_round are gone
Unwind(e) ==
  /\ exc' = e
  /\ pc' = "crashed"
  /\ ch' = ""
  /\ nonnumeric' = FALSE
  /\ guess' = <<>>
  /\ ret' = NoRet
  /\ target' = 0
  /\ attempts' = 0

\* tcgetattr succeeded, tty.setraw: the blocking read starts
get_key_enter ==
  /\ pc \in {"get_guess", "menu"}
  /\ ~reading
  /\ old_settings' = termMode
  /\ termMode' = "raw"
  /\ reading' = TRUE
  /\ ch' = ""
  /\ UNCHANGED <<config, stats, pc, nonnumeric, exc, guess, msg, ret,
                 roundVars, outcome, rounds, shown>>

\* tcgetattr raises (stdin is no terminal): raw mode is never entered
get_key_tcgetattr_fails ==
  /\ pc \in {"get_guess", "menu"}
  /\ ~reading
  /\ Unwind("termios.error")
  /\ UNCHANGED <<config, stats, terminal, msg, tones, outcome, rounds,
                 shown>>

\* tty.setraw raises: the mode is not changed, the finally clause runs
get_key_setraw_fails ==
  /\ pc \in {"get_guess", "menu"}
  /\ ~reading
  /\ old_settings' = termMode
  /\ \E setOk \in BOOLEAN :
       /\ termMode' = get_key_finally(FALSE, setOk, termMode, termMode)
       /\ Unwind(get_key_raises("termios.error", setOk))
  /\ UNCHANGED <<config, stats, reading, msg, tones, outcome, rounds,
                 shown>>

\* sys.stdin.read(1) raises or is interrupted: the finally clause runs, and
\* the exception of the read, or that of the finally clause when tcsetattr
\* is refused too (the terminal hung up), leaves run
get_key_read_fails ==
  /\ pc \in {"get_guess", "menu"}
  /\ reading
  /\ \E setOk \in BOOLEAN :
       /\ termMode' = get_key_finally(FALSE, setOk, old_settings, termMode)
       /\ Unwind(get_key_raises("read", setOk))
  /\ reading' = FALSE
  /\ UNCHANGED <<config, stats, old_settings, msg, tones, outcome, rounds,
                 shown>>

\* sys.stdin.read(1) returned a key and tcsetattr in the finally clause is
\* refused: the mode stays raw, the key is lost with the frame of get_key
\* and termios.error leaves run
get_key_tcsetattr_fails ==
  /\ pc \in {"get_guess", "menu"}
  /\ reading
  /\ termMode' = get_key_finally(TRUE, FALSE, old_settings, termMode)
  /\ reading' = FALSE
  /\ Unwind("termios.error")
  /\ UNCHANGED <<config, stats, old_settings, msg, tones, outcome, rounds,
                 shown>>

(* ----------------------------- get_guess ------------------------------ *)

\* the quit test without lower()
is_quit_case_sensitive(c) == c = "x"

\* ch.lower() == 'x'
is_quit(c) == lower(c) = "x"

\* the submit branch without the test for an empty input
is_empty_never(g) == FALSE

\* not guess
is_empty(g) == g = <<>>

\* the deletion with guess[1:] for guess[:-1]
delete_first(g) == Tail(g)

\* guess[:-1]
delete_last(g) == SubSeq(g, 1, Len(g) - 1)

\* the range test without its lower bound
in_range_no_lower(num, lo, hi) == num <= hi

\* the range test without its upper bound
in_range_no_upper(num, lo, hi) == lo <= num

\* self.min_num <= num <= self.max_num
in_range(num, lo, hi) == lo <= num /\ num <= hi

\* the append test with <= for <
may_append_one_more(g, c, hi) == isdigit(c) /\ Len(g) <= len_str(hi)

\* the append test without ch.isdigit()
may_append_any(g, c, hi) == Len(g) < len_str(hi)

\* ch.isdigit() and len(guess) < len(str(self.max_num))
may_append(g, c, hi) == isdigit(c) /\ Len(g) < len_str(hi)

\* one pass of the while loop of get_guess on key c with input string g:
\* what becomes of the string, what is printed, and how the pass ends
\* (continue the loop, return, or raise)
get_guess_step(g, c, lo, hi) ==
  IF is_quit(c)
    THEN [guess |-> g, msg |-> "interrupted", end |-> "return", ret |-> QuitRet]
  ELSE IF c \in {KEY_DEL, KEY_BS} /\ g # <<>>
    THEN [guess |-> delete_last(g), msg |-> "none", end |-> "continue", ret |-> NoRet]
  ELSE IF c = KEY_CR
    THEN IF is_empty(g)
           THEN [guess |-> g, msg |-> "none", end |-> "continue", ret |-> NoRet]
         ELSE IF ~str_isdigit(g)
           THEN [guess |-> <<>>, msg |-> "invalid", end |-> "continue", ret |-> NoRet]
         ELSE IF int_raises(g)
           THEN [guess |-> g, msg |-> "none", end |-> "raise", ret |-> NoRet]
         ELSE IF ~in_range(int(g), lo, hi)
           THEN [guess |-> <<>>, msg |-> "range", end |-> "continue", ret |-> NoRet]
         ELSE [guess |-> g, msg |-> "none", end |-> "return", ret |-> NumRet(int(g))]
  ELSE IF may_append(g, c, hi)
    THEN [guess |-> Append(g, c), msg |-> "none", end |-> "continue", ret |-> NoRet]
  ELSE [guess |-> g, msg |-> "none", end |-> "continue", ret |-> NoRet]

\* tcsetattr restored the mode and get_key returns c to get_guess, which
\* handles it
get_guess_key(c) ==
  /\ pc = "get_guess"
  /\ reading
  /\ termMode' = get_key_finally(TRUE, TRUE, old_settings, termMode)
  /\ reading' = FALSE
  /\ LET r == get_guess_step(guess, c, min_num, max_num) IN
       /\ msg' = r.msg
       /\ IF r.end = "raise"
            THEN Unwind("ValueError")
            ELSE /\ ch' = c
                 /\ nonnumeric' = \/ c = "a" /\ guess = <<>>
                                  \/ c = KEY_CR /\ nonnumeric /\ guess = <<>>
                 /\ guess' = r.guess
                 /\ ret' = r.ret
                 /\ pc' = IF r.end = "return" THEN "play_round" ELSE "get_guess"
                 /\ UNCHANGED <<exc, target, attempts>>
  /\ UNCHANGED <<config, stats, old_settings, tones, outcome, rounds,
                 shown>>

(* ----------------------------- play_sound ----------------------------- *)

\* play_sound has no exception handler: a failure of sa.play_buffer leaves
\* play_sound, play_round and run.  A pass of the loop of play_round calls
\* play_sound at most twice; ToneFailures names the call that raises
\* (0: none does).
ToneFailures == {0, 1, 2}

(* ----------------------------- show_stats ----------------------------- *)

\* show_stats prints the final statistics
show_stats(n) == n + 1

(* Python floats are IEEE 754 doubles.  A double is written here as        *)
(* [m, e]: m its significand, a natural number below 2^53, and e the       *)
(* weight of its last bit, so that its value is m * 2^e.  A significand    *)
(* does not fit an integer of the model: a natural number is written as    *)
(* the sequence of its digits in base Chunk, the least significant first.  *)

\* bits of the significand of a double
FloatBits == 53

\* bits of a digit, and the base
ChunkBits == 10
Chunk == 2 ^ ChunkBits

\* digits after the point to which a quotient is developed before it is
\* rounded: enough for FloatBits significant bits and the rounding bit of
\* any quotient w / g with 1 <= w and g < 2^21
QuotientDigits == 8

\* the natural number n < 2^30 in digits
nat_of(n) == <<n % Chunk, (n \div Chunk) % Chunk, n \div (Chunk * Chunk)>>

\* the i-th digit of N
nat_digit(N, i) == IF i <= Len(N) THEN N[i] ELSE 0

\* the bit of weight 2^p of N
nat_bit(N, p) ==
  (nat_digit(N, p \div ChunkBits + 1) \div 2 ^ (p % ChunkBits)) % 2

\* the number N stands for, when it is below 2^30
RECURSIVE nat_value(_)
nat_value(N) ==
  IF \A i \in 1..Len(N) : N[i] = 0 THEN 0
  ELSE N[1] + Chunk * nat_value(Tail(N))

\* the number of bits of N: 0 for 0
nat_bitlen(N) ==
  IF \A i \in 1..Len(N) : N[i] = 0 THEN 0
  ELSE LET top == CHOOSE i \in 1..Len(N) :
                    N[i] # 0 /\ \A j \in (i + 1)..Len(N) : N[j] = 0
       IN ChunkBits * (top - 1)
            + Cardinality({k \in 0..(ChunkBits - 1) : N[top] >= 2 ^ k})

\* N \div 2^k
nat_shr(N, k) ==
  SubSeq([i \in 1..Len(N) |->
            nat_digit(N, i + k \div ChunkBits) \div 2 ^ (k % ChunkBits)
              + (nat_digit(N, i + k \div ChunkBits + 1) % 2 ^ (k % ChunkBits))
                  * 2 ^ (ChunkBits - (k % ChunkBits))],
         1, Len(N))

\* N % 2^k # 0
nat_low_nonzero(N, k) ==
  \E i \in 1..Len(N) :
    \/ i <= k \div ChunkBits /\ N[i] # 0
    \/ i = k \div ChunkBits + 1 /\ N[i] % 2 ^ (k % ChunkBits) # 0

\* N + 1
nat_inc(N) ==
  LET nines == Cardinality({i \in 1..Len(N) :
                              \A j \in 1..i : N[j] = Chunk - 1})
  IN SubSeq([i \in 1..(Len(N) + 1) |->
               IF i <= nines THEN 0
               ELSE IF i = nines + 1 THEN nat_digit(N, i) + 1
               ELSE nat_digit(N, i)],
            1, Len(N) + 1)

\* the carry out of the j-th digit of N * c, for 0 < c < 2^15
RECURSIVE mul_carry(_, _, _)
mul_carry(N, c, j) ==
  IF j = 0 THEN 0
  ELSE (nat_digit(N, j) * c + mul_carry(N, c, j - 1)) \div Chunk

\* N * c, for 0 < c < 2^15
nat_mul(N, c) ==
  SubSeq([j \in 1..(Len(N) + 2) |->
            (nat_digit(N, j) * c + mul_carry(N, c, j - 1)) % Chunk],
         1, Len(N) + 2)

\* what is left of r / g after its first k digits, as a numerator over g:
\* the remainder of r * Chunk^k by g, for 0 <= r < g < 2^21
RECURSIVE frac_rem(_, _, _)
frac_rem(r, g, k) ==
  IF k = 0 THEN r ELSE (frac_rem(r, g, k - 1) * Chunk) % g

\* the first n digits of r / g after the point as a natural number, for
\* 0 <= r < g
frac_digits(r, g, n) ==
  SubSeq([i \in 1..n |-> (frac_rem(r, g, n - i) * Chunk) \div g], 1, n)

\* the double nearest to N * 2^e (plus a nonzero rest below the last bit
\* of N when sticky), for N of len bits: N itself when it has no more than
\* FloatBits bits; otherwise its first FloatBits bits, one added when what
\* follows them is more than half a unit of the last place, or is half a
\* unit and the last bit kept is set (ties go to even)
float_round_len(N, e, sticky, len) ==
  IF len <= FloatBits THEN [m |-> N, e |-> e]
  ELSE [m |-> IF /\ nat_bit(N, len - FloatBits - 1) = 1
                 /\ \/ sticky
                    \/ nat_low_nonzero(N, len - FloatBits - 1)
                    \/ nat_bit(N, len - FloatBits) = 1
                THEN nat_inc(nat_shr(N, len - FloatBits))
                ELSE nat_shr(N, len - FloatBits),
        e |-> e + len - FloatBits]

float_round(N, e, sticky) == float_round_len(N, e, sticky, nat_bitlen(N))

\* w / g of two ints, 0 <= w < 2^30 and 0 < g < 2^21
float_div(w, g) ==
  float_round(frac_digits(w % g, g, QuotientDigits) \o nat_of(w \div g),
              0 - ChunkBits * QuotientDigits,
              frac_rem(w % g, g, QuotientDigits) # 0)

\* x * 100
float_mul_100(x) == float_round(nat_mul(x.m, 100), x.e, FALSE)

\* the integer nearest to N * 2^(-k), ties going to the even one, for k > 0
\* and a result below 2^30
round_half_even(N, k) ==
  IF /\ nat_bit(N, k - 1) = 1
     /\ (nat_low_nonzero(N, k - 1) \/ nat_bit(N, k) = 1)
    THEN nat_value(nat_shr(N, k)) + 1
    ELSE nat_value(nat_shr(N, k))

\* f"{y:.1f}" for a double y with y.e < 0, as the number of tenths printed:
\* the decimal with one place nearest to the value of y, ties going to the
\* even digit
format_1f(y) == round_half_even(nat_mul(y.m, 10), 0 - y.e)

\* win_rate = (wins / games) * 100, printed with one decimal when games > 0:
\* the number of tenths of a percent printed (-1: no win rate is printed)
show_stats_win_rate(w, g) ==
  IF g > 0 THEN format_1f(float_mul_100(float_div(w, g))) ELSE -1

\* what show_stats prints for the statistics a session of MaxRounds rounds
\* can have
win_rates ==
  [g \in 0..MaxRounds |-> [w \in 0..MaxRounds |-> show_stats_win_rate(w, g)]]

(* ----------------------------- play_round ----------------------------- *)

\* the quit path without its increment
play_round_quit_games_same(g) == g

\* self.stats['games'] += 1 on the quit path ("Include interrupted games")
play_round_quit_games(g) == g + 1

\* the end of the round without its increment
play_round_end_games_same(g) == g

\* self.stats['games'] += 1 after the loop ("Record completed game")
play_round_end_games(g) == g + 1

\* the win branch without its increment
play_round_wins_same(w) == w

\* self.stats['wins'] += 1
play_round_wins(w) == w + 1

\* the hint with its two words swapped
play_round_hint_swapped(g, t) == IF g < t THEN "high" ELSE "low"

\* hint = "low" if guess < target else "high"
play_round_hint(g, t) == IF g < t THEN "low" ELSE "high"

\* the loop test with >= for >
while_attempts_inclusive(a) == a >= 0

\* while attempts > 0
while_attempts(a) == a > 0

\* attempts -= 1
play_round_decrement(a) == a - 1

\* the lose test one attempt early
lose_now_early(a) == a <= 1

\* if attempts == 0 (after the decrement): the lose tone is played
lose_now(a) == a = 0

\* play_round on a number n returned by get_guess: t is the target, a the
\* attempts left, fail the play_sound call that raises.  end tells how the
\* pass of the loop ends: it breaks on a win, runs out of attempts, loops,
\* or an exception leaves it.
play_round_number(n, t, a, fail) ==
  IF n = t
    THEN IF fail = 1
           THEN [end |-> "raise", attempts |-> a, hint |-> "none",
                 hintTone |-> 0, winTone |-> 0, loseTone |-> 0]
           ELSE [end |-> "win", attempts |-> a, hint |-> "none",
                 hintTone |-> 0, winTone |-> 1, loseTone |-> 0]
  ELSE IF fail = 1
    THEN [end |-> "raise", attempts |-> a, hint |-> "none",
          hintTone |-> 0, winTone |-> 0, loseTone |-> 0]
  ELSE LET a1 == play_round_decrement(a) IN
    IF lose_now(a1) /\ fail = 2
      THEN [end |-> "raise", attempts |-> a1,
            hint |-> play_round_hint(n, t),
            hintTone |-> 1, winTone |-> 0, loseTone |-> 0]
      ELSE [end |-> IF while_attempts(a1) THEN "loop" ELSE "exhausted",
            attempts |-> a1,
            hint |-> play_round_hint(n, t),
            hintTone |-> 1, winTone |-> 0,
            loseTone |-> IF lose_now(a1) THEN 1 ELSE 0]

\* the loop body that asks for the next guess when get_guess returned 'quit'
play_round_pass_quit_ignored(r, t, a, fail) ==
  IF r.kind = "quit"
    THEN [end |-> "loop", attempts |-> a, hint |-> "none",
          hintTone |-> 0, winTone |-> 0, loseTone |-> 0]
    ELSE play_round_number(r.num, t, a, fail)

\* the body of the while loop of play_round from the return of get_guess on:
\* r is what get_guess returned; on 'quit' the round returns 'quit'
play_round_pass(r, t, a, fail) ==
  IF r.kind = "quit"
    THEN [end |-> "quit", attempts |-> a, hint |-> "none",
          hintTone |-> 0, winTone |-> 0, loseTone |-> 0]
    ELSE play_round_number(r.num, t, a, fail)

\* run going on to the play-again prompt whatever play_round returned
run_after_round_menu(result) == "menu"

\* run after play_round returned: 'quit' ends the session, otherwise the
\* play-again prompt is printed
run_after_round(result) == IF result = "quit" THEN "done" ELSE "menu"

\* the play-again prompt taking the quit key of get_guess too
is_menu_quit_or_x(c) == lower(c) \in {"q", "x"}

\* key.lower() == 'q'
is_menu_quit(c) == lower(c) = "q"

\* run calls play_round: the target is drawn, the round is announced and
\* the first get_guess starts
play_round_begin ==
  /\ pc = "run"
  /\ rounds < MaxRounds
  /\ rounds' = rounds + 1
  /\ target' \in min_num..max_num
  /\ attempts' = max_attempts
  /\ hint' = "none"
  /\ hints' = 0
  /\ winTones' = 0
  /\ loseTones' = 0
  /\ guess' = <<>>
  /\ ch' = ""
  /\ nonnumeric' = FALSE
  /\ msg' = "none"
  /\ ret' = NoRet
  /\ IF while_attempts(max_attempts)
       THEN /\ pc' = "get_guess"
            /\ UNCHANGED <<games, outcome>>
       ELSE /\ games' = play_round_end_games(games)
            /\ outcome' = "Exhausted"
            /\ pc' = run_after_round("continue")
  /\ UNCHANGED <<config, wins, terminal, exc, shown>>

\* the guard of run with 1 for 0
run_quit_guard_one(g) == g > 1

\* if self.stats['games'] > 0 (run, after play_round returned 'quit')
run_quit_guard(g) == g > 0

\* get_guess has returned: play_round handles the value, and run handles
\* what play_round returns
play_round_guess(fail) ==
  /\ pc = "play_round"
  /\ LET p == play_round_pass(ret, target, attempts, fail) IN
       /\ hint' = IF p.hint = "none" THEN hint ELSE p.hint
       /\ hints' = hints + p.hintTone
       /\ winTones' = winTones + p.winTone
       /\ loseTones' = loseTones + p.loseTone
       /\ CASE p.end = "quit" ->
                 /\ games' = play_round_quit_games(games)
                 /\ wins' = wins
                 /\ outcome' = "Quit"
                 /\ statsShown' = IF run_quit_guard(games')
                                    THEN show_stats(statsShown)
                                    ELSE statsShown
                 /\ win_rate' = IF run_quit_guard(games')
                                  THEN win_rates[games'][wins']
                                  ELSE win_rate
                 /\ pc' = run_after_round("quit")
                 /\ UNCHANGED <<ch, nonnumeric, exc, guess, msg, ret, target,
                                attempts>>
            [] p.end = "win" ->
                 /\ wins' = play_round_wins(wins)
                 /\ games' = play_round_end_games(games)
                 /\ outcome' = "Win"
                 /\ pc' = run_after_round("continue")
                 /\ UNCHANGED <<ch, nonnumeric, exc, guess, msg, ret, target,
                                attempts, shown>>
            [] p.end = "exhausted" ->
                 /\ attempts' = p.attempts
                 /\ games' = play_round_end_games(games)
                 /\ wins' = wins
                 /\ outcome' = "Exhausted"
                 /\ pc' = run_after_round("continue")
                 /\ UNCHANGED <<ch, nonnumeric, exc, guess, msg, ret, target,
                                shown>>
            [] p.end = "loop" ->
                 /\ attempts' = p.attempts
                 /\ guess' = <<>>
                 /\ ch' = ""
                 /\ nonnumeric' = FALSE
                 /\ msg' = "none"
                 /\ ret' = NoRet
                 /\ pc' = "get_guess"
                 /\ UNCHANGED <<stats, exc, target, outcome, shown>>
            [] p.end = "raise" ->
                 /\ Unwind("audio")
                 /\ UNCHANGED <<stats, msg, outcome, shown>>
  /\ UNCHANGED <<config, terminal, rounds>>

(* -------------------------------- run --------------------------------- *)

\* the play-again loop of run: tcsetattr restored the mode and get_key
\* returns c
run_menu_key(c) ==
  /\ pc = "menu"
  /\ reading
  /\ termMode' = get_key_finally(TRUE, TRUE, old_settings, termMode)
  /\ reading' = FALSE
  /\ ch' = c
  /\ IF c = " "
       THEN /\ pc' = "run"
            /\ UNCHANGED shown
     ELSE IF is_menu_quit(c)
       THEN /\ statsShown' = show_stats(statsShown)
            /\ win_rate' = win_rates[games][wins]
            /\ pc' = "done"
       ELSE /\ pc' = "menu"
            /\ UNCHANGED shown
  /\ UNCHANGED <<config, stats, old_settings, nonnumeric, exc, guess, msg,
                 ret, roundVars, outcome, rounds>>

(* --------------------------- specification ---------------------------- *)

GuessKey == \E c \in GuessKeys : get_guess_key(c)
RoundGuess == \E fail \in ToneFailures : play_round_guess(fail)
MenuKey == \E c \in MenuKeys : run_menu_key(c)

Next ==
  \/ play_round_begin
  \/ get_key_enter
  \/ get_key_tcgetattr_fails
  \/ get_key_setraw_fails
  \/ get_key_read_fails
  \/ get_key_tcsetattr_fails
  \/ GuessKey
  \/ RoundGuess
  \/ MenuKey

Spec == Init /\ [][Next]_vars

\* the session in which no key read and no tone fails; play_round goes on
\* whenever get_guess has returned
RoundGuessOk == play_round_guess(0)

NextLive ==
  \/ play_round_begin
  \/ get_key_enter
  \/ GuessKey
  \/ RoundGuessOk
  \/ MenuKey

SpecLive == Init /\ [][NextLive]_vars /\ WF_vars(RoundGuessOk)

TypeOK ==
  /\ pc \in {"run", "get_guess", "play_round", "menu", "done", "crashed"}
  /\ games \in 0..MaxRounds
  /\ wins \in 0..MaxRounds
  /\ termMode \in TermModes \cup {"raw"}
  /\ reading \in BOOLEAN
  /\ ret.kind \in {"none", "quit", "num"}
  /\ exc \in {"none", "termios.error", "read", "ValueError", "audio"}
  /\ (pc = "crashed") = (exc # "none")
  /\ outcome \in {"None", "Win", "Exhausted", "Quit"}

(* ------------------------------ claims -------------------------------- *)

\* get_key has returned key c to get_guess in this step
GuessKeyStep(c) ==
  pc = "get_guess" /\ reading /\ ~reading' /\ ch' = c

\* C1: a number returned by get_guess lies within [min_num, max_num].
C1_AcceptedInRange ==
  ret.kind = "num" => (min_num <= ret.num /\ ret.num <= max_num)

\* get_guess has just returned max_num, typed with two digits
C1_Witness ==
  pc = "play_round" /\ ret.kind = "num" /\ ret.num = max_num /\ Len(guess) = 2

\* C2: stats['games'] counts the rounds that have ended, whatever their
\* outcome: it equals the number of rounds started while no round is running
\* and one less while a round is running.
C2_GamesCountsRounds ==
  /\ pc \in {"run", "menu", "done"} => games = rounds
  /\ pc \in {"get_guess", "play_round"} => games = rounds - 1

\* the second round was ended by the quit key before any guess was made
C2_Witness ==
  pc = "done" /\ outcome = "Quit" /\ rounds = 2 /\ games = 2 /\ hints = 0

\* C3: stats['wins'] grows by one in the step in which a round returns after
\* an accepted guess equal to the target, whose outcome is Win, and is left
\* unchanged by every other step.
C3_WinsIffWin ==
  [][IF pc = "play_round" /\ ret.kind = "num" /\ ret.num = target
          /\ pc' = "menu"
       THEN wins' = wins + 1 /\ outcome' = "Win"
       ELSE wins' = wins /\ (outcome' = "Win" => outcome = "Win")]_vars

\* a lost round and then a won round
C3_Witness ==
  pc = "menu" /\ outcome = "Win" /\ wins = 1 /\ games = 2

\* C4 as stated: the terminal is in raw mode only while a read is in
\* progress, and once get_key has been left, by return or by exception, the
\* terminal mode is the one saved at entry.
C4_TerminalRestored ==
  /\ termMode = "raw" => (reading /\ pc \in {"get_guess", "menu"})
  /\ ~reading => termMode \in TermModes
  /\ (~reading /\ old_settings # "unset") => termMode = old_settings

\* C4 amended: once get_key has been left by returning a key or by the
\* exception of the read, the terminal mode is the one saved at entry; the
\* terminal is in raw mode outside a read only after get_key raised
\* termios.error, which ended the session, and the step that leaves a read
\* either sets the saved mode or, raising termios.error, leaves the mode
\* as it was.
C4_RestoredUnlessRefused ==
  [][/\ (~reading' /\ old_settings' # "unset" /\ exc' # "termios.error") =>
          termMode' = old_settings'
     /\ (termMode' = "raw" /\ ~reading') =>
          (pc' = "crashed" /\ exc' = "termios.error")
     /\ (reading /\ ~reading') =>
          \/ termMode' = old_settings
          \/ pc' = "crashed" /\ exc' = "termios.error"
               /\ termMode' = termMode]_vars

\* a read failed in raw mode and the mode saved at entry is back
C4_Witness ==
  pc = "crashed" /\ exc = "read" /\ ~reading /\ termMode = old_settings

\* C5: a failing tone never aborts the round: the handling of a value
\* returned by get_guess always ends in the next prompt, the menu or the end
\* of the session, and a guess equal to the target is counted in wins and
\* in games.
C5_ToneFailureNeverAborts ==
  [][pc = "play_round" =>
       /\ pc' # "crashed"
       /\ (ret.kind = "num" /\ ret.num = target) =>
            (wins' = wins + 1 /\ games' = games + 1)]_vars

\* C6 as stated: after letters typed at an empty input, submit prints the
\* validation error and clears the input.
C6_LettersThenSubmitInvalid ==
  (pc = "get_guess" /\ ch = KEY_CR /\ nonnumeric) =>
    (msg = "invalid" /\ guess = <<>>)

\* C6 amended: letters typed at an empty input are ignored, and a submit
\* that follows them is the submit of an empty input: nothing is printed,
\* the input stays empty and get_guess goes on reading keys.
C6_LettersThenSubmitNoOp ==
  nonnumeric => (pc = "get_guess" /\ guess = <<>> /\ msg = "none"
                   /\ ret = NoRet)

\* a letter and then submit were typed at an empty input
C6_Witness ==
  pc = "get_guess" /\ ch = KEY_CR /\ nonnumeric /\ ~reading

\* C7: 'x' or 'X' read by get_guess makes it return 'quit', whatever the
\* input holds; no number is returned.
C7_QuitAlways ==
  [][(GuessKeyStep("x") \/ GuessKeyStep("X")) =>
       (pc' = "play_round" /\ ret' = QuitRet /\ msg' = "interrupted")]_vars

\* 'X' was pressed with a full input of two characters
C7_Witness ==
  pc = "play_round" /\ ret = QuitRet /\ ch = "X" /\ Len(guess) = 2

\* C8: show_stats runs in the step that ends the session and in no other,
\* once; no step follows the end of the session.
C8_StatsOnceAtEnd ==
  [][/\ pc # "done"
     /\ statsShown' = IF pc' = "done" THEN 1 ELSE 0]_vars

\* the session was ended by the quit key in its first round, before a guess
C8_Witness ==
  pc = "done" /\ statsShown = 1 /\ outcome = "Quit" /\ rounds = 1 /\ hints = 0

\* C9: the input never grows beyond len(str(max_num)) characters, and a digit
\* key read when it has that length leaves it unchanged.
C9_InputLengthCapped ==
  [][/\ Len(guess') <= len_str(max_num)
     /\ (/\ pc = "get_guess" /\ reading /\ ~reading'
         /\ isdigit(ch') /\ Len(guess) = len_str(max_num)) =>
          (guess' = guess /\ pc' = "get_guess")]_vars

\* a digit was read with a full input of two characters and was not appended
C9_Witness ==
  /\ pc = "get_guess" /\ ~reading
  /\ Len(guess) = 2 /\ len_str(max_num) = 2
  /\ isdigit(ch) /\ ch # guess[2]

\* C10: submit with an empty input changes nothing: the input stays empty,
\* nothing is printed, get_guess does not return, and the attempts and the
\* statistics are as before.
C10_EmptySubmitNoOp ==
  [][(GuessKeyStep(KEY_CR) /\ guess = <<>>) =>
       /\ pc' = "get_guess" /\ guess' = <<>> /\ msg' = "none" /\ ret' = NoRet
       /\ UNCHANGED <<stats, roundVars, outcome, rounds, shown>>]_vars

\* submit was pressed at an empty input after a wrong guess, with no letter
\* before it
C10_Witness ==
  /\ pc = "get_guess" /\ ~reading /\ ch = KEY_CR /\ ~nonnumeric
  /\ guess = <<>> /\ msg = "none" /\ hints = 1

\* C11: a deletion key read by get_guess never ends the editing and prints
\* nothing; with an empty input it leaves the input empty, with a non-empty
\* input it removes the last character and keeps the others.
C11_Backspace ==
  [][(GuessKeyStep(KEY_DEL) \/ GuessKeyStep(KEY_BS)) =>
       /\ pc' = "get_guess" /\ msg' = "none" /\ ret' = NoRet
       /\ guess = <<>> => guess' = <<>>
       /\ guess # <<>> =>
            /\ Len(guess') = Len(guess) - 1
            /\ \A i \in 1..Len(guess') : guess'[i] = guess[i]]_vars

\* '\b' was read with two characters in the input and the first is left
C11_Witness ==
  /\ pc = "get_guess" /\ ~reading /\ ch = KEY_BS
  /\ guess = <<"1">> /\ max_num = 10

\* C12: submit of a string of decimal digits whose value is outside
\* [min_num, max_num] prints the range error, empties the input and keeps
\* get_guess reading; nothing is returned to play_round and the attempts and
\* statistics are unchanged.
C12_OutOfRangeSubmit ==
  [][(/\ GuessKeyStep(KEY_CR)
      /\ guess # <<>>
      /\ \A i \in 1..Len(guess) : guess[i] \in DecimalKeys
      /\ (int(guess) < min_num \/ int(guess) > max_num)) =>
       /\ pc' = "get_guess" /\ msg' = "range" /\ guess' = <<>>
       /\ ret' = NoRet
       /\ UNCHANGED <<stats, roundVars, outcome, rounds, shown>>]_vars

\* a number out of range was submitted while one attempt was left
C12_Witness ==
  /\ pc = "get_guess" /\ ~reading /\ ch = KEY_CR /\ msg = "range"
  /\ guess = <<>> /\ attempts = 1 /\ hints = 2

\* a key was read at the play-again prompt in this step
MenuKeyStep == pc = "menu" /\ reading /\ ~reading' /\ pc' # "crashed"

\* C13: the play-again prompt is reached only after a round that ended Win
\* or Exhausted; there space leads to a new round, 'q' or 'Q' shows the
\* statistics and ends the session, and every other key, 'x' included,
\* changes neither the statistics nor where the session is.
C13_PlayAgainMenu ==
  [][/\ MenuKeyStep =>
          /\ outcome \in {"Win", "Exhausted"}
          /\ IF ch' = " "
               THEN pc' = "run" /\ UNCHANGED <<stats, shown, rounds, outcome>>
             ELSE IF ch' \in {"q", "Q"}
               THEN /\ pc' = "done" /\ statsShown' = statsShown + 1
                    /\ UNCHANGED <<stats, rounds, outcome>>
             ELSE /\ pc' = "menu"
                  /\ UNCHANGED <<config, stats, shown, rounds, outcome,
                                 roundVars>>
     /\ pc = "run" => (pc' = "get_guess" /\ rounds' = rounds + 1)]_vars

\* 'x' was pressed at the play-again prompt after a won round
C13_Witness ==
  /\ pc = "menu" /\ ~reading /\ ch = "x" /\ outcome = "Win"
  /\ statsShown = 0 /\ games = 1

\* C14: when get_guess returns 'quit' the session ends in the same step:
\* no prompt, no read and no new round follow, and the statistics are shown
\* if games > 0.
C14_QuitEndsSession ==
  [][/\ pc # "done"
     /\ (pc = "play_round" /\ ret = QuitRet) =>
          /\ pc' = "done" /\ outcome' = "Quit"
          /\ ~reading' /\ rounds' = rounds
          /\ statsShown' = IF games' > 0 THEN statsShown + 1
                           ELSE statsShown]_vars

\* the quit key ended the first round after one wrong guess
C14_Witness ==
  /\ pc = "done" /\ outcome = "Quit" /\ statsShown = 1
  /\ rounds = 1 /\ hints = 1

\* C15: while a guess is being entered or handled between 1 and
\* max_attempts attempts are left; the attempts left are max_attempts less
\* the wrong guesses handled, never negative; no more than max_attempts
\* guesses are compared with the target; and a round ends Exhausted exactly
\* when max_attempts guesses were wrong.
C15_AttemptBudget ==
  /\ pc \in {"get_guess", "play_round"} =>
       (1 <= attempts /\ attempts <= max_attempts)
  /\ (pc \in {"get_guess", "play_round", "menu", "done", "run"}
        /\ rounds >= 1) =>
       /\ 0 <= attempts /\ attempts <= max_attempts
       /\ hints = max_attempts - attempts
       /\ hints + winTones <= max_attempts
  /\ (pc \in {"menu", "done", "run"} /\ rounds >= 1) =>
       ((outcome = "Exhausted") = (hints = max_attempts /\ winTones = 0))

\* three wrong guesses used up a budget of three
C15_Witness ==
  /\ pc = "menu" /\ outcome = "Exhausted" /\ max_attempts = 3
  /\ hints = 3 /\ attempts = 0 /\ rounds = 1

\* C16: a guess that differs from the target gets one hint, "low" when it is
\* below the target and "high" when it is above, and costs one attempt; a
\* guess equal to the target gets the win tone and no hint.
C16_HintDirection ==
  [][(pc = "play_round" /\ ret.kind = "num" /\ pc' # "crashed") =>
       IF ret.num = target
         THEN /\ winTones' = winTones + 1
              /\ hints' = hints /\ hint' = hint /\ attempts' = attempts
         ELSE /\ hints' = hints + 1 /\ winTones' = winTones
              /\ attempts' = attempts - 1
              /\ ret.num < target => hint' = "low"
              /\ ret.num > target => hint' = "high"]_vars

\* a guess below and then a guess above the target
C16_Witness ==
  /\ pc = "get_guess" /\ hint = "high" /\ hints = 2 /\ attempts = 1
  /\ ch = "" /\ ~reading

\* C17: the lose tone is played at most once in a round, in the step that
\* takes the attempts from 1 to 0 and ends the round Exhausted; a round that
\* ends otherwise has played none, and no round plays both the win and the
\* lose tone.
C17_LoseOnce ==
  [][/\ loseTones' <= 1
     /\ winTones' + loseTones' <= 1
     /\ loseTones' > loseTones =>
          /\ pc = "play_round" /\ attempts = 1 /\ attempts' = 0
          /\ pc' = "menu" /\ outcome' = "Exhausted"
     /\ (pc = "play_round" /\ pc' \in {"menu", "done"}) =>
          ((loseTones' = 1) = (outcome' = "Exhausted"))
     /\ pc' \in {"get_guess", "play_round"} => loseTones' = 0]_vars

\* a won round and then a round lost with the lose tone played once
C17_Witness ==
  /\ pc = "menu" /\ outcome = "Exhausted" /\ loseTones = 1 /\ winTones = 0
  /\ rounds = 2 /\ wins = 1

\* C18: every character of the input passed str.isdigit(), and the message
\* "Please enter a valid number!" is never printed.
C18_InputAllDigits ==
  /\ \A i \in 1..Len(guess) : isdigit(guess[i])
  /\ msg # "invalid"

\* an input of characters that pass isdigit() was submitted and went past
\* the validation branch, to int()
C18_Witness ==
  pc = "crashed" /\ exc = "ValueError" /\ msg = "none"

\* C19: once show_stats has run, games >= 1 and 0 <= wins <= games, and the
\* win rate was printed and lies between 0 and 100 percent.
C19_StatsWellFormed ==
  statsShown >= 1 =>
    /\ games >= 1 /\ 0 <= wins /\ wins <= games
    /\ win_rate >= 0 /\ win_rate <= 1000

\* the statistics of one won round out of two were shown: 50.0%
C19_Witness ==
  pc = "done" /\ statsShown = 1 /\ wins = 1 /\ games = 2 /\ win_rate = 500

\* every call of get_guess returns
GuessAlwaysReturns == [](pc = "get_guess" => <>(pc = "play_round"))

\* C20: if every call of get_guess returns, a round that has started ends,
\* at the play-again prompt or at the end of the session, with outcome Win,
\* Exhausted or Quit; and a key that leaves get_guess reading changes neither
\* the attempts nor the statistics.
C20_RoundEnds ==
  /\ GuessAlwaysReturns =>
       [](pc \in {"get_guess", "play_round"} =>
            <>(pc \in {"menu", "done"}
                 /\ outcome \in {"Win", "Exhausted", "Quit"}))
  /\ [][(pc = "get_guess" /\ pc' = "get_guess") =>
          UNCHANGED <<stats, attempts, target, outcome, rounds>>]_vars

\* a round was won with a two-character guess after one wrong guess
C20_Witness ==
  /\ pc = "menu" /\ outcome = "Win" /\ rounds = 1 /\ hints = 1
  /\ Len(guess) = 2 /\ exc = "none"

====
